---- MODULE Spec2Model ----
(***************************************************************************)
(* A model of the notebook python-interfaces.ipynb.                        *)
(*                                                                         *)
(* Part two of the file is the radial-distance inspection pipeline:        *)
(* radius, in_sample_dist, kde_cdf_plot and make_blob_df, together with    *)
(* the notebook cells that drive them (the cell that adds the 'r' column,  *)
(* the cell that reduces a frame with PCA, the cell that adds the labels). *)
(* Part one of the file is the classes of the interfaces tutorial:         *)
(* DoppelDict, ListOfThings and OrderedListOfThings, LengthyDecimal and    *)
(* Vector.                                                                 *)
(*                                                                         *)
(* Numbers.  Coordinates are integers.  Every other quantity the pipeline  *)
(* computes from them (norms, distances, normalised radii) is the square   *)
(* root of a non-negative rational, so a cell value is kept exactly as     *)
(*     [s |-> sign, n |-> numerator, d |-> denominator]  =  s * sqrt(n/d)  *)
(* in lowest terms.  d = 0 is a non-finite float: n = 0 is NaN (0.0/0.0),  *)
(* n = 1 is an infinity.  Arithmetic is exact: the rounding of IEEE        *)
(* doubles is not modelled.                                                *)
(***************************************************************************)
EXTENDS Integers, Sequences, FiniteSets, TLC

VARIABLES
    vector,     \* the argument of a direct call radius(vector)
    ret,        \* <<v>>: the value v the last call returned; <<>>: None
    X,          \* the notebook's global X: the coordinate array, one row per point
    y,          \* the notebook's global y: the cluster labels of X (<<>> if none)
    df,         \* the frame the cells work on: [cols |-> names, rows |-> cells]
    df_no_r,    \* the notebook's global X_df_no_r
    fig,        \* what the last plotting call drew
    last,       \* the last call made and how it ended
    self,       \* the object a method of the classes of part one is called on
    other       \* the second operand of a comparison of two such objects

vars == <<vector, ret, X, y, df, df_no_r, fig, last, self, other>>

----------------------------------------------------------------------------
(* Bounds of the model *)

MaxLen == 3        \* longest vector handed to radius directly
MaxCoord == 4      \* largest coordinate
MaxCells == 3      \* most coordinates in an array (rows times columns)
MaxBins == 3       \* most bins asked of in_sample_dist
MaxBlobs == 2      \* most clusters asked of make_blob_df
MaxDims == 2       \* most columns of an array
MaxBlobCells == 2  \* most coordinates asked of make_blob_df (n_points times dims)
MaxComponents == 2 \* largest n_components asked of PCA
MaxPcaCells == 4   \* most coordinates in a frame handed to PCA
MaxPcaCoord == 1   \* largest coordinate in a frame handed to PCA
MaxThings == 4     \* longest list handed to ListOfThings
MaxThing == 4      \* largest thing in a list
MaxCoefficient == 120  \* largest of the short coefficients of a decimal
MaxExponent == 3   \* largest exponent of a decimal, and of its reciprocal
MaxVectorLen == 2  \* most components of a Vector
MaxMagnitude == 1  \* largest magnitude of a component of a Vector
MaxValue == 2      \* largest value stored in a dict
MaxScore == 1      \* largest projected coordinate PCA returns

----------------------------------------------------------------------------
(* Exact arithmetic on cell values *)

RECURSIVE GCD(_, _)
GCD(a, b) == IF b = 0 THEN a ELSE GCD(b, a % b)

Sign(x) == IF x < 0 THEN -1 ELSE IF x = 0 THEN 0 ELSE 1

\* The fraction n/d (n >= 0) in lowest terms; d = 0 gives NaN (0/0) or inf (n/0).
Frac(n, d) ==
    IF d = 0 THEN [n |-> IF n = 0 THEN 0 ELSE 1, d |-> 0]
    ELSE LET g == GCD(n, d) IN [n |-> n \div g, d |-> d \div g]

NaN == [s |-> 0, n |-> 0, d |-> 0]

Zero == [s |-> 0, n |-> 0, d |-> 1]

One == [s |-> 1, n |-> 1, d |-> 1]

IsNaN(v) == v.d = 0 /\ v.n = 0

\* A Python int or float with an integral value, as a cell value.
IntVal(x) == [s |-> Sign(x), n |-> x * x, d |-> 1]

Neg(v) == [v EXCEPT !.s = -v.s]

\* the cell value is an integer
IsInt(v) == v.d = 1 /\ \E k \in 0..v.n : k * k = v.n

IntOf(v) == v.s * (CHOOSE k \in 0..v.n : k * k = v.n)

\* u - v, for the operands the pipeline subtracts: one of them zero, both equal, or
\* both integers
Sub(u, v) ==
    IF IsNaN(u) \/ IsNaN(v) THEN NaN
    ELSE IF u.n = 0 /\ u.d # 0 THEN Neg(v)
    ELSE IF v.n = 0 /\ v.d # 0 THEN u
    ELSE IF u = v /\ u.d # 0 THEN Zero
    ELSE IF IsInt(u) /\ IsInt(v) THEN IntVal(IntOf(u) - IntOf(v))
    ELSE NaN

\* v * v, a fraction
Sq(v) == [n |-> v.n, d |-> v.d]

\* p + q for fractions p, q >= 0 (NaN and inf propagate)
FracAdd(p, q) ==
    IF p.d = 0 \/ q.d = 0
    THEN IF (p.d = 0 /\ p.n = 0) \/ (q.d = 0 /\ q.n = 0) THEN Frac(0, 0) ELSE Frac(1, 0)
    ELSE Frac(p.n * q.d + q.n * p.d, p.d * q.d)

\* sqrt of a fraction p >= 0
Sqrt(p) == [s |-> IF p.n = 0 THEN 0 ELSE 1, n |-> p.n, d |-> p.d]

\* u < v as Python's float comparison decides it: False whenever a NaN is involved
Lt(u, v) ==
    IF IsNaN(u) \/ IsNaN(v) THEN FALSE
    ELSE IF u.s # v.s THEN u.s < v.s
    ELSE IF u.s = 0 THEN FALSE
    ELSE IF u.s = 1 THEN u.n * v.d < v.n * u.d
    ELSE v.n * u.d < u.n * v.d

\* u / v for floats: 0/0 and anything with a NaN is NaN, x/0 is an infinity
Div(u, v) ==
    IF IsNaN(u) \/ IsNaN(v) THEN NaN
    ELSE IF v.n = 0 THEN (IF u.n = 0 THEN NaN ELSE [s |-> u.s, n |-> 1, d |-> 0])
    ELSE IF u.d = 0 /\ v.d = 0 THEN NaN
    ELSE LET f == Frac(u.n * v.d, u.d * v.n)
         IN  [s |-> IF f.n = 0 THEN 0 ELSE u.s * v.s, n |-> f.n, d |-> f.d]

----------------------------------------------------------------------------
(* radius *)

\* np.zeros(k)
Zeros(k) == [i \in 1..k |-> Zero]

\* u - v for arrays of equal length
VecSub(u, v) == [k \in 1..Len(v) |-> Sub(u[k], v[k])]

RECURSIVE SumSq(_, _)
SumSq(w, k) == IF k = 0 THEN Frac(0, 1) ELSE FracAdd(SumSq(w, k - 1), Sq(w[k]))

\* np.linalg.norm(w): the 2-norm
Norm(w) == Sqrt(SumSq(w, Len(w)))

\* spd.euclidean(u, v): the 2-norm of u - v
Euclidean(u, v) == Norm(VecSub(u, v))

\* radius without the square root: the squared norm
RadiusNoSqrt(v) ==
    LET p == SumSq(VecSub(Zeros(Len(v)), v), Len(v))
    IN  [s |-> IF p.n = 0 THEN 0 ELSE 1, n |-> p.n * p.n, d |-> p.d * p.d]

\* radius measured from the all-ones vector: origin = np.ones(len(vector))
RadiusFromOnes(v) == Euclidean([i \in 1..Len(v) |-> One], v)

\* def radius(vector)
Radius(v) ==
    LET origin == Zeros(Len(v))
    IN  Euclidean(origin, v)

----------------------------------------------------------------------------
(* Arrays and frames *)


RECURSIVE SeqsOf(_, _)
\* the sequences of length k over the set S
SeqsOf(S, k) ==
    IF k = 0 THEN {<<>>}
    ELSE {Append(q, e) : q \in SeqsOf(S, k - 1), e \in S}

\* the n x d arrays the model draws its point sets from
Arrays(n, d) == SeqsOf(SeqsOf(0..MaxCoord, d), n)

XNames == <<"x0", "x1", "x2", "x3", "x4">>

\* pd.DataFrame(X, columns=['x{}'.format(i) for i in range(X.shape[1])]), for an array
\* of d columns
DataFrame(A, d) ==
    [cols |-> [i \in 1..d |-> XNames[i]],
     rows |-> [i \in 1..Len(A) |-> [j \in 1..d |-> IntVal(A[i][j])]]]

NoFrame == [cols |-> <<>>, rows |-> <<>>]

\* name in df
HasCol(f, name) == \E i \in 1..Len(f.cols) : f.cols[i] = name

ColIndex(f, name) == CHOOSE i \in 1..Len(f.cols) : f.cols[i] = name

\* df[name]
GetCol(f, name) == [i \in 1..Len(f.rows) |-> f.rows[i][ColIndex(f, name)]]

\* df[name] = col: overwrite the column in place, or append it as the last column
SetCol(f, name, col) ==
    IF HasCol(f, name)
    THEN [f EXCEPT !.rows = [i \in 1..Len(f.rows) |->
                                [f.rows[i] EXCEPT ![ColIndex(f, name)] = col[i]]]]
    ELSE [cols |-> Append(f.cols, name),
          rows |-> [i \in 1..Len(f.rows) |-> Append(f.rows[i], col[i])]]

\* df.apply(radius, axis=1): radius of every row, over all of the row's columns
ApplyRadius(f) == [i \in 1..Len(f.rows) |-> Radius(f.rows[i])]

RECURSIVE PyMaxFrom(_, _, _)
PyMaxFrom(s, k, best) ==
    IF k > Len(s) THEN best
    ELSE PyMaxFrom(s, k + 1, IF Lt(best, s[k]) THEN s[k] ELSE best)

\* Python's builtin max over a non-empty sequence: keeps the first item until a
\* later one compares greater
PyMax(s) == PyMaxFrom(s, 2, s[1])

RECURSIVE PyMinFrom(_, _, _)
PyMinFrom(s, k, best) ==
    IF k > Len(s) THEN best
    ELSE PyMinFrom(s, k + 1, IF Lt(s[k], best) THEN s[k] ELSE best)

PyMin(s) == PyMinFrom(s, 2, s[1])

----------------------------------------------------------------------------
(* Histograms *)

LCM(a, b) == (a * b) \div GCD(a, b)

\* edge i of b equal-width bins over [lo, hi] is <= v, for finite lo <= v <= hi:
\*     b*sqrt(a) >= (b-i)*sqrt(m) + i*sqrt(M)
\* with the three radicands a, m, M brought to a common denominator, decided by
\* squaring twice.
EdgeLe(i, b, lo, hi, v) ==
    LET D == LCM(LCM(lo.d, hi.d), v.d)
        a == v.n * (D \div v.d)
        m == lo.n * (D \div lo.d)
        M == hi.n * (D \div hi.d)
        L == b * b * a - (b - i) * (b - i) * m - i * i * M
    IN  L >= 0 /\ L * L >= 4 * i * i * (b - i) * (b - i) * m * M

\* binning with the last bin half-open as well: the largest value falls outside
BinOfOpenTop(v, b, lo, hi, pad) ==
    IF pad = 1 THEN b \div 2
    ELSE Cardinality({i \in 1..b : EdgeLe(i, b, lo, hi, v)})

\* the bin (0-based) np.histogram puts v in: bins are half-open, the last is closed,
\* so v lies in the bin of the last edge below the top edge that is <= v.
\* pad = 1: all values are equal and the range is [v - 0.5, v + 0.5]
BinOf(v, b, lo, hi, pad) ==
    IF pad = 1 THEN b \div 2
    ELSE Cardinality({i \in 1..(b - 1) : EdgeLe(i, b, lo, hi, v)})

NotNaN(v) == ~IsNaN(v)

\* the values pandas keeps for a histogram: y[~isnull(y)]
Finite(s) == SelectSeq(s, NotNaN)

\* the counts of b bins, from the bin of every value
Counts(bins, b) == [i \in 1..b |-> Cardinality({k \in 1..Len(bins) : bins[k] = i - 1})]

\* a histogram whose range starts at 0: range=(0, max)
HistogramFromZero(values, b) ==
    LET vs == Finite(values)
        lo == Zero
        hi == IF vs = <<>> THEN One ELSE PyMax(vs)
        pad == IF vs # <<>> /\ lo = hi THEN 1 ELSE 0
    IN  [lo |-> lo, hi |-> hi, pad |-> pad,
         counts |-> Counts([k \in 1..Len(vs) |-> BinOf(vs[k], b, lo, hi, pad)], b)]

\* np.histogram(values, bins=b) for b >= 1, NaN dropped beforehand: the range is
\* [min, max], (0, 1) for no values, widened by 0.5 each side if min = max
Histogram(values, b) ==
    LET vs == Finite(values)
        lo == IF vs = <<>> THEN Zero ELSE PyMin(vs)
        hi == IF vs = <<>> THEN One ELSE PyMax(vs)
        pad == IF vs # <<>> /\ lo = hi THEN 1 ELSE 0
    IN  [lo |-> lo, hi |-> hi, pad |-> pad,
         counts |-> Counts([k \in 1..Len(vs) |-> BinOf(vs[k], b, lo, hi, pad)], b)]

NoHist == [lo |-> Zero, hi |-> Zero, pad |-> 0, counts |-> <<>>]

\* a histogram that takes a bin count of 0
RefusesBinsBelowZero(b) == b < 0

\* a histogram that takes any bin count
RefusesNothing(b) == FALSE

\* np.histogram: a bin count below 1 is refused ('bins' should be a positive integer)
RefusesBins(b) == b < 1

RECURSIVE SumTo(_, _)
SumTo(s, k) == IF k = 0 THEN 0 ELSE SumTo(s, k - 1) + s[k]

\* cumulative=True, normed=1: density = count / (total * width), then
\* (density * width).cumsum(); for no values this is 0/0 in every bin
Cumulative(h) ==
    LET total == SumTo(h.counts, Len(h.counts))
    IN  [i \in 1..Len(h.counts) |-> Frac(SumTo(h.counts, i), total)]

RECURSIVE PairsFrom(_, _, _)
\* spd.pdist(X): the distances of the pairs (i, j), i < j, in row order
PairsFrom(A, i, j) ==
    IF i >= Len(A) THEN <<>>
    ELSE IF j > Len(A) THEN PairsFrom(A, i + 1, i + 2)
    ELSE <<Norm([k \in 1..Len(A[i]) |-> IntVal(A[i][k] - A[j][k])])>>
         \o PairsFrom(A, i, j + 1)

Pdist(A) == PairsFrom(A, 1, 2)

----------------------------------------------------------------------------
(* The state of a fresh notebook, and the records the calls leave *)

NoFig == [kind |-> "none", kde |-> FALSE, title |-> <<>>, hist |-> NoHist,
          cdf |-> <<>>, xlab |-> ""]

Call(op, status) ==
    [op |-> op, status |-> status, norm |-> FALSE, vol |-> FALSE, bins |-> 0,
     n |-> 0, d |-> 0, k |-> 0, args |-> <<>>]

\* no object has been constructed
NoObject == [class |-> "none"]

NoCall == Call("none", "ok")

----------------------------------------------------------------------------
(* radius(vector), called directly *)

\* An entry of a vector handed to radius is a number, kept as an integer of
\* -MaxCoord..MaxCoord, or an object that is not a number (a str such as 'a'), kept as
\* the code NonNumeric outside that range.
NonNumeric == MaxCoord + 1

\* a subtraction that takes any entry for a number
NumericOrNot(v) == TRUE

\* origin - vector is defined: every entry of the vector is a number
Numeric(v) == \A i \in 1..Len(v) : v[i] # NonNumeric

RadiusCall ==
    /\ last.op = "none"
    /\ IF Numeric(vector)
       THEN /\ ret' = <<Radius([i \in 1..Len(vector) |-> IntVal(vector[i])])>>
            /\ last' = Call("radius", "ok")
       ELSE \* the ufunc subtract has no loop for a float and a str
            /\ ret' = <<>>
            /\ last' = Call("radius", "TypeError")
    /\ UNCHANGED <<self, other, vector, X, y, df, df_no_r, fig>>

----------------------------------------------------------------------------
(* df['r'] = df.apply(radius, axis=1) *)

AddR ==
    /\ df' = SetCol(df, "r", ApplyRadius(df))
    /\ last' = Call("add_r", "ok")
    /\ ret' = <<>>
    /\ UNCHANGED <<self, other, vector, X, y, df_no_r, fig>>

----------------------------------------------------------------------------
(* def kde_cdf_plot(df, norm=False, vol=False) *)

\* df['r'] / max(df['r'])
NormalizedByLength(r) == [i \in 1..Len(r) |-> Div(r[i], IntVal(Len(r)))]

Normalized(r) == [i \in 1..Len(r) |-> Div(r[i], PyMax(r))]

\* the figure once subplot 1 is drawn: the KDE and the title
KdeFig(f) ==
    [NoFig EXCEPT !.kind = "kde_cdf", !.kde = TRUE,
                  !.title = <<Len(f.rows), Len(f.cols) - 1>>]

\* the figure once subplot 2 is drawn too: the cumulative histogram of df['r'] with
\* len(df['r']) bins, and the x label
KdeCdfFig(f, norm) ==
    LET r == GetCol(f, "r")
        h == Histogram(r, Len(r))
    IN  [KdeFig(f) EXCEPT !.hist = h, !.cdf = Cumulative(h),
                          !.xlab = IF norm THEN "radial distance (%)"
                                   ELSE "radial distance"]

\* the overwrite done whatever the flag says
OverwriteAlways(f, norm) == SetCol(f, "r", Normalized(GetCol(f, "r")))

\* if norm: df['r'] = df['r'] / max(df['r']), on the caller's frame
Overwrite(f, norm) == IF norm THEN SetCol(f, "r", Normalized(GetCol(f, "r"))) ELSE f

\* a volume branch that does not raise
VolErrorNone == "ok"

\* a volume branch that reports a bad argument
VolErrorAsValueError == "ValueError"

\* raise NotImplementedError("Didn't finish implementing this volume normalization!")
VolError == "NotImplementedError"

\* a run with the assert statements stripped (python -O)
AssertStripped(f) == FALSE

\* assert 'r' in df, '...': the assertion fails
AssertFails(f) == ~HasCol(f, "r")

KdeCdfPlot(norm, vol) ==
    LET call == [Call("kde_cdf_plot", "ok") EXCEPT !.norm = norm, !.vol = vol]
        df1 == Overwrite(df, norm)
    IN  /\ ret' = <<>>
        /\ UNCHANGED <<self, other, vector, X, y, df_no_r>>
        /\ IF AssertFails(df)
           THEN \* the assert is the first statement of the body
                /\ last' = [call EXCEPT !.status = "AssertionError"]
                /\ UNCHANGED <<df, fig>>
           ELSE IF ~HasCol(df, "r")
           THEN \* past the assert, the first df['r'] is a KeyError: in the overwrite,
                \* or else in sns.distplot once plt.subplots has opened the figure
                /\ last' = [call EXCEPT !.status = "KeyError"]
                /\ fig' = IF norm THEN fig ELSE [NoFig EXCEPT !.kind = "kde_cdf"]
                /\ UNCHANGED df
           ELSE IF norm /\ df.rows = <<>>
           THEN \* max() of an empty sequence
                /\ last' = [call EXCEPT !.status = "ValueError"]
                /\ UNCHANGED <<df, fig>>
           ELSE IF vol
           THEN \* the raise comes after the overwrite of df['r'] and after subplot 1
                /\ df' = df1
                /\ fig' = KdeFig(df1)
                /\ last' = [call EXCEPT !.status = VolError]
           ELSE IF RefusesBins(Len(GetCol(df1, "r")))
           THEN \* bins=len(df['r']) is 0: np.histogram refuses it
                /\ df' = df1
                /\ fig' = KdeFig(df1)
                /\ last' = [call EXCEPT !.status = "ValueError"]
           ELSE /\ df' = df1
                /\ fig' = KdeCdfFig(df1, norm)
                /\ last' = call

----------------------------------------------------------------------------
(* def in_sample_dist(X, n) *)

\* a builder that hands the histogram it has drawn back to the caller
ReturnedHist(h) == <<h>>

\* what in_sample_dist returns once the histogram h is drawn: the body has no return
\* statement, so None
Returned(h) == <<>>

InSampleDist(b) ==
    /\ ret' = IF RefusesBins(b) THEN <<>> ELSE Returned(Histogram(Pdist(X), b))
    /\ UNCHANGED <<self, other, vector, X, y, df, df_no_r>>
    /\ IF RefusesBins(b)
       THEN \* plt.figure() has opened an empty figure when plt.hist refuses the bins
            /\ fig' = [NoFig EXCEPT !.kind = "hist"]
            /\ last' = [Call("in_sample_dist", "ValueError") EXCEPT !.bins = b]
       ELSE /\ fig' = [NoFig EXCEPT !.kind = "hist", !.hist = Histogram(Pdist(X), b),
                                    !.xlab = "inter-sample distance"]
            /\ last' = [Call("in_sample_dist", "ok") EXCEPT !.bins = b]

----------------------------------------------------------------------------
(* def make_blob_df(n_points=1000, dims=2, blobs=5, bounding_box=(-10.0, 10.0)) *)

\* the label vectors sklearn's make_blobs draws: the n samples are dealt to the k
\* centers as evenly as possible (the first n % k centers get one more), then shuffled
Labels(n, k) ==
    {l \in SeqsOf(0..(k - 1), n) :
        \A c \in 0..(k - 1) :
            Cardinality({i \in 1..n : l[i] = c}) = (n \div k) + (IF c < n % k THEN 1 ELSE 0)}

\* make_blobs with a fixed random_state: the same draw every time
MakeBlobsSeeded(n_samples, n_features, centers) ==
    {[X |-> [i \in 1..n_samples |-> [j \in 1..n_features |-> 0]],
      y |-> CHOOSE l \in Labels(n_samples, centers) : TRUE]}

\* make_blobs(n_samples, n_features, centers) with no random_state: any n x d array
\* (a centre in the box plus unbounded Gaussian noise) and any label vector
MakeBlobs(n_samples, n_features, centers) ==
    {[X |-> A, y |-> l] : A \in Arrays(n_samples, n_features), l \in Labels(n_samples, centers)}

\* the call with n_samples and n_features exchanged
MakeBlobsSwapped(n_points, dims, blobs) == MakeBlobs(dims, n_points, blobs)

\* X, y = make_blobs(n_samples=n_points, n_features=dims, centers=blobs, ...)
MakeBlobsCall(n_points, dims, blobs) == MakeBlobs(n_points, dims, blobs)

\* a copy taken of the frame once the radial distance column is in it
X_df_no_r_late(X_df, X_df_r) == X_df_r

\* X_df_no_r = copy.deepcopy(X_df): a frame of its own, with the columns X_df has
\* when the copy is taken, before the radial distance column is added
X_df_no_r(X_df, X_df_r) == X_df

MakeBlobDf(n_points, dims, blobs) ==
    \E b \in MakeBlobsCall(n_points, dims, blobs) :
        LET X_df == DataFrame(b.X, IF b.X = <<>> THEN dims ELSE Len(b.X[1]))
            X_df_r == SetCol(X_df, "r", ApplyRadius(X_df))
        IN  /\ X' = b.X
            /\ y' = b.y
            /\ df_no_r' = X_df_no_r(X_df, X_df_r)
            /\ df' = X_df_r
            /\ ret' = <<>>
            /\ last' = [Call("make_blob_df", "ok") EXCEPT !.n = n_points, !.d = dims,
                                                          !.k = blobs]
            /\ UNCHANGED <<self, other, vector, fig>>

----------------------------------------------------------------------------
(* pca = PCA(n_components=k);  pd.DataFrame(pca.fit_transform(X_df_no_r), columns=...) *)

RECURSIVE ColSum(_, _, _)
\* A[1][j] + ... + A[i][j]
ColSum(A, j, i) == IF i = 0 THEN 0 ELSE ColSum(A, j, i - 1) + A[i][j]

\* The n x k arrays fit_transform can return.  The projected coordinates are not
\* computed: any array is possible whose columns are centred (each sums to zero, the
\* data being centred on its mean before it is projected).
Scores(n, k) ==
    {A \in SeqsOf(SeqsOf((-MaxScore)..MaxScore, k), n) :
        \A j \in 1..k : ColSum(A, j, n) = 0}

\* a reducer that keeps every component it has found, whatever n_components says
KeptAll(k, n, d) == IF n < d THEN n ELSE d

\* the number of components kept: U[:, :n_components]
Kept(k, n, d) == k

\* a reducer that wants the target dimension strictly below the source dimension
AcceptsBelowOnly(k, n, d) == n >= 1 /\ k < d /\ k <= n

\* a reducer that does not look at the number of points
AcceptsAnyPoints(k, n, d) == n >= 1 /\ k <= d

\* fit accepts the input: at least one sample, and n_components no larger than
\* min(n_samples, n_features)
Accepts(k, n, d) == n >= 1 /\ k <= d /\ k <= n

\* PCA(n_components=k).fit_transform(f): the outcomes it can end in
FitTransform(f, k) ==
    LET n == Len(f.rows)
        d == Len(f.cols)
    IN  IF Accepts(k, n, d)
        THEN {[status |-> "ok", width |-> Kept(k, n, d), out |-> A] :
                 A \in Scores(n, Kept(k, n, d))}
        ELSE {[status |-> "ValueError", width |-> 0, out |-> <<>>]}

\* the cell: the reduced frame replaces the frame the later cells work on; the frame
\* constructor refuses an array that has not one column per name
Pca(k) ==
    \E o \in FitTransform(df_no_r, k) :
        LET call == [Call("pca", o.status) EXCEPT !.n = Len(df_no_r.rows),
                                                  !.d = Len(df_no_r.cols), !.k = k]
        IN  /\ ret' = <<>>
            /\ UNCHANGED <<self, other, vector, X, y, df_no_r, fig>>
            /\ IF o.status # "ok"
               THEN /\ last' = call
                    /\ UNCHANGED df
               ELSE IF o.width # k
               THEN /\ last' = [call EXCEPT !.status = "ValueError"]
                    /\ UNCHANGED df
               ELSE /\ last' = call
                    /\ df' = DataFrame(o.out, k)

\* the cell  X_df_3d['y'] = y: the labels become the last column of the frame; a
\* sequence of another length than the frame is refused
AddY ==
    /\ IF Len(y) = Len(df.rows)
       THEN /\ df' = SetCol(df, "y", [i \in 1..Len(y) |-> IntVal(y[i])])
            /\ last' = Call("add_y", "ok")
       ELSE /\ df' = df
            /\ last' = Call("add_y", "ValueError")
    /\ ret' = <<>>
    /\ UNCHANGED <<self, other, vector, X, y, df_no_r, fig>>

----------------------------------------------------------------------------
(* class DoppelDict(dict) *)

\* Python values held by a dict: an int, or a list of values
PyInt(v) == [type |-> "int", int |-> v, list |-> <<>>]

PyList(xs) == [type |-> "list", int |-> 0, list |-> xs]

RECURSIVE Repeat(_, _)
\* xs * n for a list xs
Repeat(xs, n) == IF n <= 0 THEN <<>> ELSE xs \o Repeat(xs, n - 1)

\* def __setitem__(self, key, value): the value stored under the key
SetItemValue(value) == PyList(Repeat(<<value>>, 2))

\* a dict whose constructor stores its keyword arguments through __setitem__
InitThroughSetItem(kwargs) == [key \in DOMAIN kwargs |-> SetItemValue(kwargs[key])]

\* dict.__init__(**kwargs), which DoppelDict inherits: the builtin stores the pairs
\* itself and does not look up the __setitem__ of the subclass
DictInit(kwargs) == [key \in DOMAIN kwargs |-> kwargs[key]]

\* dd = DoppelDict(**kwargs)
DoppelDict(kwargs) ==
    /\ self' = [class |-> "DoppelDict", items |-> DictInit(kwargs)]
    /\ last' = [Call("DoppelDict", "ok") EXCEPT !.args = <<kwargs>>]
    /\ ret' = <<>>
    /\ UNCHANGED <<other, vector, X, y, df, df_no_r, fig>>

\* dd[key] = value
SetItem(key, value) ==
    /\ self' = [self EXCEPT !.items =
                   [j \in DOMAIN self.items \cup {key} |->
                       IF j = key THEN SetItemValue(value) ELSE self.items[j]]]
    /\ last' = [Call("__setitem__", "ok") EXCEPT !.args = <<key, value>>]
    /\ ret' = <<>>
    /\ UNCHANGED <<other, vector, X, y, df, df_no_r, fig>>

----------------------------------------------------------------------------
(* class ListOfThings, class OrderedListOfThings(ListOfThings) *)

RECURSIVE Insert(_, _)
\* the ascending list xs with x put after the items that are not greater
Insert(xs, x) ==
    IF xs = <<>> THEN <<x>>
    ELSE IF x < Head(xs) THEN <<x>> \o xs
    ELSE <<Head(xs)>> \o Insert(Tail(xs), x)

RECURSIVE SortedFrom(_, _)
SortedFrom(xs, acc) ==
    IF xs = <<>> THEN acc ELSE SortedFrom(Tail(xs), Insert(acc, Head(xs)))

\* sorted(set(xs)): ascending, each value once
SortedSet(xs) ==
    LET RECURSIVE Uniq(_)
        Uniq(zs) == IF Len(zs) < 2 THEN zs
                    ELSE IF zs[1] = zs[2] THEN Uniq(Tail(zs))
                    ELSE <<zs[1]>> \o Uniq(Tail(zs))
    IN  Uniq(SortedFrom(xs, <<>>))

\* sorted(xs): a new list, ascending and stable
Sorted(xs) == SortedFrom(xs, <<>>)

\* ListOfThings(x) or OrderedListOfThings(x): __init__ keeps the list given
ListOfThings(cls, x) ==
    /\ self' = [class |-> cls, things |-> x]
    /\ last' = [Call(cls, "ok") EXCEPT !.args = <<x>>]
    /\ ret' = <<>>
    /\ UNCHANGED <<other, vector, X, y, df, df_no_r, fig>>

\* self.get_the_things(), by the class of self
GetTheThings ==
    /\ ret' = <<IF self.class = "OrderedListOfThings"
                THEN Sorted(self.things)
                ELSE self.things>>
    /\ last' = Call("get_the_things", "ok")
    /\ UNCHANGED <<self, other, vector, X, y, df, df_no_r, fig>>

----------------------------------------------------------------------------
(* class LengthyDecimal(decimal.Decimal) *)

RECURSIVE Pow10(_)
Pow10(k) == IF k <= 0 THEN 1 ELSE 10 * Pow10(k - 1)

\* A Decimal is (-1)^sign * int * 10^exp.  Its magnitude as a quotient of integers:
Numerator(dec) == dec.int * Pow10(dec.exp)

Denominator(dec) == Pow10(-dec.exp)

RECURSIVE FloorLog10(_, _)
\* math.floor(math.log10(num / den)) for num / den > 0, in exact arithmetic
FloorLog10(num, den) ==
    IF num >= 10 * den THEN FloorLog10(num, 10 * den) + 1
    ELSE IF num < den THEN FloorLog10(10 * num, den) - 1
    ELSE 0

\* y = LengthyDecimal(value)
LengthyDecimal(sign, int, exp) ==
    /\ self' = [class |-> "LengthyDecimal", sign |-> sign, int |-> int, exp |-> exp]
    /\ last' = Call("LengthyDecimal", "ok")
    /\ ret' = <<>>
    /\ UNCHANGED <<other, vector, X, y, df, df_no_r, fig>>

\* len(y): math.log10 refuses zero and the negative numbers, and the builtin len
\* refuses a negative length returned by __len__
LenCall ==
    /\ IF self.sign = 1 \/ self.int = 0
       THEN /\ ret' = <<>>
            /\ last' = Call("len", "ValueError")
       ELSE LET length == FloorLog10(Numerator(self), Denominator(self)) + 1
            IN  IF length < 0
                THEN /\ ret' = <<>>
                     /\ last' = Call("len", "ValueError")
                ELSE /\ ret' = <<length>>
                     /\ last' = Call("len", "ok")
    /\ UNCHANGED <<self, other, vector, X, y, df, df_no_r, fig>>

----------------------------------------------------------------------------
(* class Vector *)

\* A component of a Vector is a double, array('d', ...): here a double with an
\* integral value, [neg |-> sign bit, mag |-> magnitude], so that 0.0 and -0.0 differ.
FloatValue(x) == IF x.neg THEN -x.mag ELSE x.mag

\* a == b for two doubles
FloatEq(a, b) == FloatValue(a) = FloatValue(b)

\* hash(x) for a double with an integral value: the hash of the integer, and -1 is
\* never a hash
FloatHash(x) == IF FloatValue(x) = -1 THEN -2 ELSE FloatValue(x)

RECURSIVE Xor(_, _)
\* operator.xor(a, b) for Python ints: bit by bit, on the two's complement of
\* unbounded width
Xor(a, b) ==
    IF a = 0 THEN b
    ELSE IF b = 0 THEN a
    ELSE IF a = -1 THEN -b - 1
    ELSE IF b = -1 THEN -a - 1
    ELSE 2 * Xor(a \div 2, b \div 2) + (((a % 2) + (b % 2)) % 2)

RECURSIVE Reduce(_, _)
\* functools.reduce(operator.xor, hashes, initial)
Reduce(hashes, initial) ==
    IF hashes = <<>> THEN initial
    ELSE Reduce(Tail(hashes), Xor(initial, Head(hashes)))

\* def __hash__(self)
VectorHash(v) ==
    LET hashes == [i \in 1..Len(v.components) |-> FloatHash(v.components[i])]
    IN  Reduce(hashes, 0)

\* an equality that leaves the lengths out: all(a == b for a, b in zip(self, other))
VectorEqZipOnly(v, w) ==
    \A i \in 1..Len(v.components) :
        i <= Len(w.components) => FloatEq(v.components[i], w.components[i])

\* def __eq__(self, other): zip stops at the shorter of the two
VectorEq(v, w) ==
    /\ Len(v.components) = Len(w.components)
    /\ \A i \in 1..Len(v.components) :
          i <= Len(w.components) => FloatEq(v.components[i], w.components[i])

\* Vector(components), bound to the first name or to the second
Vector(name, components) ==
    /\ IF name = "self"
       THEN self' = [class |-> "Vector", components |-> components] /\ other' = other
       ELSE other' = [class |-> "Vector", components |-> components] /\ self' = self
    /\ last' = Call("Vector", "ok")
    /\ ret' = <<>>
    /\ UNCHANGED <<vector, X, y, df, df_no_r, fig>>

\* self == other
EqCall ==
    /\ ret' = <<VectorEq(self, other)>>
    /\ last' = Call("__eq__", "ok")
    /\ UNCHANGED <<self, other, vector, X, y, df, df_no_r, fig>>

\* hash(self)
HashCall ==
    /\ ret' = <<VectorHash(self)>>
    /\ last' = Call("__hash__", "ok")
    /\ UNCHANGED <<self, other, vector, X, y, df, df_no_r, fig>>

----------------------------------------------------------------------------
(* Specifications *)

\* the vectors handed to radius directly
Vectors == UNION {SeqsOf(((-MaxCoord)..MaxCoord) \cup {NonNumeric}, k) : k \in 0..MaxLen}

\* the shapes (n, d) of the arrays of at most c coordinates
Shapes(c) == {sh \in (0..c) \X (1..MaxDims) : sh[1] * sh[2] <= c}

Fresh ==
    /\ vector = <<>>
    /\ ret = <<>>
    /\ X = <<>>
    /\ y = <<>>
    /\ df = NoFrame
    /\ df_no_r = NoFrame
    /\ fig = NoFig
    /\ last = NoCall
    /\ self = NoObject
    /\ other = NoObject

\* a session that calls radius on a vector
InitRadius ==
    /\ vector \in Vectors
    /\ ret = <<>>
    /\ X = <<>>
    /\ y = <<>>
    /\ df = NoFrame
    /\ df_no_r = NoFrame
    /\ fig = NoFig
    /\ last = NoCall
    /\ self = NoObject
    /\ other = NoObject

NextRadius == RadiusCall

SpecRadius == InitRadius /\ [][NextRadius]_vars

\* a session over an array and its frame:  X = np.array(...);  df = pd.DataFrame(X, ...)
Init ==
    /\ vector = <<>>
    /\ ret = <<>>
    /\ y = <<>>
    /\ \E sh \in Shapes(MaxCells) :
          /\ X \in Arrays(sh[1], sh[2])
          /\ df = DataFrame(X, sh[2])
    /\ df_no_r = NoFrame
    /\ fig = NoFig
    /\ last = NoCall
    /\ self = NoObject
    /\ other = NoObject

\* the cells of the notebook: the 'r' column is added once; in_sample_dist(X,n) is
\* called with n the number of points
Next ==
    \/ (~HasCol(df, "r") /\ AddR)
    \/ \E norm \in BOOLEAN, vol \in BOOLEAN : KdeCdfPlot(norm, vol)
    \/ InSampleDist(Len(X))

Spec == Init /\ [][Next]_vars

\* a session that runs the cell  df['r'] = df.apply(radius, axis=1)  and runs it
\* again on the frame the first run left
NextRerun ==
    /\ HasCol(df, "r") => GetCol(df, "r") = ApplyRadius(DataFrame(X, Len(df.cols) - 1))
    /\ AddR

SpecRerun == Init /\ [][NextRerun]_vars

\* a session that builds its array and frames with make_blob_df
NextBlob ==
    /\ last.op = "none"
    /\ \E sh \in Shapes(MaxBlobCells), blobs \in 1..MaxBlobs :
          MakeBlobDf(sh[1], sh[2], blobs)

SpecBlob == Fresh /\ [][NextBlob]_vars

\* the keys and the keyword arguments of the dicts
Keys == {"one", "two", "three"}

Values == {PyInt(v) : v \in 1..MaxValue}

Kwargs == UNION {[K -> Values] : K \in SUBSET Keys}

\* a session that constructs a DoppelDict and assigns to its keys
NextDoppel ==
    \/ last.op = "none" /\ \E kwargs \in Kwargs : DoppelDict(kwargs)
    \/ self.class = "DoppelDict" /\ \E key \in Keys, value \in Values : SetItem(key, value)

SpecDoppel == Fresh /\ [][NextDoppel]_vars

\* the lists handed to ListOfThings and OrderedListOfThings
Things == UNION {SeqsOf(1..MaxThing, k) : k \in 0..MaxThings}

\* a session that wraps a list and gets the things, once or again
NextThings ==
    \/ /\ last.op = "none"
       /\ \E cls \in {"ListOfThings", "OrderedListOfThings"}, x \in Things :
             ListOfThings(cls, x)
    \/ self.class \in {"ListOfThings", "OrderedListOfThings"} /\ GetTheThings

SpecThings == Fresh /\ [][NextThings]_vars

\* the coefficients of the decimals: the short ones, and that of 555.44
Coefficients == (0..MaxCoefficient) \cup {55544}

\* a session that makes a LengthyDecimal and asks for its length
NextDecimal ==
    \/ /\ last.op = "none"
       /\ \E sign \in {0, 1}, int \in Coefficients, exp \in (-MaxExponent)..MaxExponent :
             LengthyDecimal(sign, int, exp)
    \/ self.class = "LengthyDecimal" /\ LenCall

SpecDecimal == Fresh /\ [][NextDecimal]_vars

\* the doubles and the component lists of the Vectors
Floats == [neg : BOOLEAN, mag : 0..MaxMagnitude]

Components == UNION {SeqsOf(Floats, k) : k \in 0..MaxVectorLen}

\* a session that makes two Vectors, compares them and hashes the first
NextVector ==
    \/ self.class = "none" /\ \E c \in Components : Vector("self", c)
    \/ /\ self.class = "Vector" /\ other.class = "none"
       /\ \E c \in Components : Vector("other", c)
    \/ other.class = "Vector" /\ EqCall
    \/ other.class = "Vector" /\ HashCall

SpecVector == Fresh /\ [][NextVector]_vars

\* a session that builds its frames with make_blob_df and plots X_df
NextBlobPlot ==
    \/ NextBlob
    \/ last.op # "none" /\ \E norm \in BOOLEAN, vol \in BOOLEAN : KdeCdfPlot(norm, vol)

SpecBlobPlot == Fresh /\ [][NextBlobPlot]_vars

\* a session that draws pairwise-distance histograms of the array
NextDist == \E b \in (-1)..MaxBins : InSampleDist(b)

SpecDist == Init /\ [][NextDist]_vars

\* the shapes (n, d) of the frames handed to PCA
PcaShapes == {sh \in (0..MaxPcaCells) \X (1..MaxDims) : sh[1] * sh[2] <= MaxPcaCells}

\* a session in which make_blob_df(n, d, blobs=1) has built the frames
InitPca ==
    /\ vector = <<>>
    /\ ret = <<>>
    /\ fig = NoFig
    /\ self = NoObject
    /\ other = NoObject
    /\ \E sh \in PcaShapes :
          /\ X \in SeqsOf(SeqsOf(0..MaxPcaCoord, sh[2]), sh[1])
          /\ y = [i \in 1..sh[1] |-> 0]
          /\ df_no_r = DataFrame(X, sh[2])
          /\ df = SetCol(df_no_r, "r", ApplyRadius(df_no_r))
          /\ last = [Call("make_blob_df", "ok") EXCEPT !.n = sh[1], !.d = sh[2], !.k = 1]

\* the frame without 'r' is reduced once
NextPca == last.op = "make_blob_df" /\ \E k \in 1..MaxComponents : Pca(k)

SpecPca == InitPca /\ [][NextPca]_vars

\* the cells of the dimensionality-reduction section, in the notebook's order: the
\* plot of X_df, the reduction, the 'r' and 'y' columns, the plot of X_df_3d
NextPcaPlot ==
    \/ last.op \in {"make_blob_df", "add_y"} /\ KdeCdfPlot(TRUE, FALSE)
    \/ /\ last.op \in {"make_blob_df", "kde_cdf_plot"}
       /\ ~HasCol(df, "y")
       /\ \E k \in 1..MaxComponents : Pca(k)
    \/ last.op = "pca" /\ last.status = "ok" /\ AddR
    \/ last.op = "add_r" /\ AddY

SpecPcaPlot == InitPca /\ [][NextPcaPlot]_vars

----------------------------------------------------------------------------
(* Properties of radius *)

RECURSIVE SumOfSquares(_, _)
\* v[1]^2 + ... + v[k]^2 for a vector of integers
SumOfSquares(v, k) == IF k = 0 THEN 0 ELSE SumOfSquares(v, k - 1) + v[k] * v[k]

\* every entry of the vector handed to radius is a number
AllNumbers == \A i \in 1..Len(vector) : vector[i] \in (-MaxCoord)..MaxCoord

\* x >= 0 for a float x (false of NaN)
NonNegative(x) == ~IsNaN(x) /\ ~Lt(x, Zero)

\* C1: radius(v) is the Euclidean norm of a numeric vector v: it is the non-negative number whose
\* square is the sum of the squared components, and radius([3,4]) = 5.
C1_RadiusIsEuclideanNorm ==
    (last.op = "radius" /\ AllNumbers) =>
        /\ last.status = "ok"
        /\ Len(ret) = 1
        /\ NonNegative(ret[1])
        /\ Sq(ret[1]) = [n |-> SumOfSquares(vector, Len(vector)), d |-> 1]
        /\ (vector = <<3, 4>> => ret[1] = IntVal(5))

C1_Witness ==
    /\ last.op = "radius"
    /\ vector = <<3, 4>>
    /\ ret = <<IntVal(5)>>

\* C2: radius(p) >= 0 for every point p (a vector of numbers), and the radius of the all-zero vector of
\* any length is 0.
C2_RadiusNonNegativeZeroAtOrigin ==
    (last.op = "radius" /\ AllNumbers) =>
        /\ NonNegative(ret[1])
        /\ ((\A i \in 1..Len(vector) : vector[i] = 0) => ret[1] = Zero)

C2_Witness ==
    /\ last.op = "radius"
    /\ vector = <<0, 0, 0>>
    /\ ret = <<Zero>>

----------------------------------------------------------------------------
(* Properties of in_sample_dist *)

\* the distance of the points i and j of X, from their integer coordinates
Dist(i, j) ==
    LET q == SumOfSquares([k \in 1..Len(X[i]) |-> X[i][k] - X[j][k]], Len(X[i]))
    IN  [s |-> IF q = 0 THEN 0 ELSE 1, n |-> q, d |-> 1]

Pairs == {p \in (1..Len(X)) \X (1..Len(X)) : p[1] < p[2]}

\* in_sample_dist was called on at least two points with at least one bin
DistCase == last.op = "in_sample_dist" /\ Len(X) >= 2 /\ last.bins >= 1

\* C3: for n >= 2 points and b >= 1 bins, the b bin counts of the pairwise-distance
\* histogram sum to n*(n-1)/2.
C3_BinCountsSumToPairs ==
    DistCase =>
        /\ last.status = "ok"
        /\ fig.kind = "hist"
        /\ Len(fig.hist.counts) = last.bins
        /\ 2 * SumTo(fig.hist.counts, Len(fig.hist.counts)) = Len(X) * (Len(X) - 1)

C3_Witness ==
    /\ DistCase
    /\ Len(X) = 3
    /\ fig.hist.counts = <<2, 0, 1>>

\* the points of X are pairwise distinct
DistinctPoints == \A p \in Pairs : X[p[1]] # X[p[2]]

\* C4, as claimed, for three or more distinct points: the bins span [0, max-distance]:
\* the first edge is 0 and the last edge is the largest pairwise distance.
C4_BinsSpanZeroToMax ==
    (DistCase /\ Len(X) >= 3 /\ DistinctPoints) =>
        /\ fig.hist.pad = 0
        /\ fig.hist.lo = Zero
        /\ \E p \in Pairs : fig.hist.hi = Dist(p[1], p[2])
        /\ \A p \in Pairs : ~Lt(fig.hist.hi, Dist(p[1], p[2]))

\* C4, amended: the b equal-width bins span [min-distance, max-distance]: the first
\* edge is the smallest pairwise distance and the last edge the largest; when all
\* distances are equal the range is widened by 0.5 on each side of that distance.
C4_BinsSpanMinToMax ==
    DistCase =>
        /\ Len(fig.hist.counts) = last.bins
        /\ \E p \in Pairs : fig.hist.lo = Dist(p[1], p[2])
        /\ \A p \in Pairs : ~Lt(Dist(p[1], p[2]), fig.hist.lo)
        /\ \E p \in Pairs : fig.hist.hi = Dist(p[1], p[2])
        /\ \A p \in Pairs : ~Lt(fig.hist.hi, Dist(p[1], p[2]))
        /\ fig.hist.pad = (IF fig.hist.lo = fig.hist.hi THEN 1 ELSE 0)

C4_Witness ==
    /\ DistCase
    /\ X = <<<<0>>, <<1>>, <<3>>>>
    /\ last.bins = 3
    /\ fig.hist.lo = IntVal(1)
    /\ fig.hist.hi = IntVal(3)

----------------------------------------------------------------------------
(* Properties of kde_cdf_plot *)

\* the 'r' column of the frame
R == GetCol(df, "r")

\* kde_cdf_plot was called on a frame with a non-empty 'r' column
KdeCase == last.op = "kde_cdf_plot" /\ HasCol(df, "r") /\ df.rows # <<>>

\* p < q for fractions (false if one is 0/0)
FracLt(p, q) == p.n * q.d < q.n * p.d

\* the value the drawn CDF has at x: the cumulative value of the bin x lies in
CdfAt(x) ==
    fig.cdf[BinOf(x, Len(fig.cdf), fig.hist.lo, fig.hist.hi, fig.hist.pad) + 1]

\* the fraction of all radii that are <= x
FractionUpTo(x) == Frac(Cardinality({k \in 1..Len(R) : ~Lt(x, R[k])}), Len(R))

\* C5, as claimed: the CDF drawn gives, for each observed radius x, the fraction of
\* all radius values that are <= x.
C5_CdfIsFractionUpTo ==
    (KdeCase /\ ~last.vol /\ \A i \in 1..Len(R) : ~IsNaN(R[i])) =>
        /\ last.status = "ok"
        /\ \A i \in 1..Len(R) : CdfAt(R[i]) = FractionUpTo(R[i])

\* C6, as claimed: for every non-empty sequence of radii the CDF values are
\* non-decreasing and the CDF at max(radii) is 1.
C6_CdfMonotoneEndsAtOne ==
    (KdeCase /\ ~last.vol) =>
        /\ last.status = "ok"
        /\ \A i, j \in 1..Len(fig.cdf) : i < j => ~FracLt(fig.cdf[j], fig.cdf[i])
        /\ ~IsNaN(PyMax(R))
        /\ CdfAt(PyMax(R)) = Frac(1, 1)

\* C7, as claimed: after kde_cdf_plot(df, norm=True) on a frame with a non-empty 'r'
\* column every radius lies in [0,1] and the largest radius is exactly 1.
C7_NormalizedInUnitInterval ==
    (KdeCase /\ last.norm) =>
        /\ \A i \in 1..Len(R) : NonNegative(R[i]) /\ ~Lt(One, R[i])
        /\ PyMax(R) = One

\* C8, as claimed, for frames whose largest radius is positive: once the 'r' column
\* is there, no call of kde_cdf_plot or in_sample_dist changes the stored radii.
C8_RadiiNeverMutated ==
    [][(/\ HasCol(df, "r")
        /\ df.rows # <<>>
        /\ Lt(Zero, PyMax(GetCol(df, "r")))
        /\ last'.op \in {"kde_cdf_plot", "in_sample_dist"})
          => GetCol(df', "r") = GetCol(df, "r")]_vars

\* C8, amended: in_sample_dist and kde_cdf_plot with norm=False leave the frame as it
\* is; kde_cdf_plot with norm=True overwrites every stored radius with that radius
\* divided by the largest one, in the caller's frame, and changes nothing else in it.
C8_RadiiMutatedOnlyByNorm ==
    [][/\ (HasCol(df, "r") /\ last'.op = "in_sample_dist") => df' = df
       /\ (HasCol(df, "r") /\ last'.op = "kde_cdf_plot" /\ ~last'.norm) => df' = df
       /\ (HasCol(df, "r") /\ last'.op = "kde_cdf_plot" /\ last'.norm /\ df.rows # <<>>)
              => /\ df'.cols = df.cols
                 /\ \A i \in 1..Len(df.rows) :
                       /\ GetCol(df', "r")[i] = Div(GetCol(df, "r")[i], PyMax(GetCol(df, "r")))
                       /\ \A c \in 1..Len(df.cols) :
                             df.cols[c] # "r" => df'.rows[i][c] = df.rows[i][c]
      ]_vars

\* a normalised plot has been drawn of the points 1 and 4: the frame now holds the
\* radii 1/4 and 1
C8_Witness ==
    /\ KdeCase
    /\ last.norm
    /\ last.status = "ok"
    /\ X = <<<<1>>, <<4>>>>
    /\ R = <<Div(IntVal(1), IntVal(4)), One>>

----------------------------------------------------------------------------
(* Properties of make_blob_df *)

\* C9: make_blob_df(n_points=n, dims=d, blobs=k) produces exactly n points of d
\* coordinates each and n labels, each one of 0..k-1.
C9_BlobShape ==
    last.op = "make_blob_df" =>
        /\ last.status = "ok"
        /\ Len(X) = last.n
        /\ \A i \in 1..Len(X) : Len(X[i]) = last.d
        /\ Len(y) = last.n
        /\ \A i \in 1..Len(y) : y[i] \in 0..(last.k - 1)
        /\ Len(df.rows) = last.n
        /\ Len(df_no_r.cols) = last.d

C9_Witness ==
    /\ last.op = "make_blob_df"
    /\ last.n = 2 /\ last.d = 1 /\ last.k = 2
    /\ X = <<<<4>>, <<0>>>>
    /\ y = <<1, 0>>

\* C10: the generator is not deterministic: after any call that produced at least
\* one point, the generator call with the same arguments (there is no seed among
\* them) has a possible result whose point set differs from the one returned.
C10_BlobsNotReproducible ==
    (last.op = "make_blob_df" /\ last.n >= 1) =>
        \E b \in MakeBlobsCall(last.n, last.d, last.k) : b.X # X

C10_Witness ==
    /\ last.op = "make_blob_df"
    /\ last.n = 2 /\ last.d = 1 /\ last.k = 2
    /\ X = <<<<1>>, <<3>>>>

----------------------------------------------------------------------------
(* Properties of the reduction *)

\* the frame the cells work on has n rows of k cells and k columns
HasShape(f, n, k) ==
    /\ Len(f.rows) = n
    /\ Len(f.cols) = k
    /\ \A i \in 1..Len(f.rows) : Len(f.rows[i]) = k

\* C11: reducing n points of d dimensions to k < d dimensions (with the k points the
\* reduction needs) returns n points, each of exactly k components.
C11_ReductionShape ==
    (last.op = "pca" /\ last.k < last.d /\ last.n >= last.k) =>
        /\ last.status = "ok"
        /\ HasShape(df, last.n, last.k)

C11_Witness ==
    /\ last.op = "pca"
    /\ last.n = 2 /\ last.d = 2 /\ last.k = 1
    /\ df = DataFrame(<<<<1>>, <<-1>>>>, 1)

\* C12: the reduction is idempotent in shape: with target k, data that already has k
\* dimensions (n >= k points of k components) is reduced successfully to a point set
\* of the same shape, and every reduced point set is accepted again with the same k.
C12_ReductionIdempotentInShape ==
    /\ (last.op = "pca" /\ last.d = last.k /\ last.n >= last.k) =>
           /\ last.status = "ok"
           /\ HasShape(df_no_r, last.n, last.k)
           /\ HasShape(df, last.n, last.k)
    /\ (last.op = "pca" /\ last.status = "ok") =>
           /\ Accepts(last.k, Len(df.rows), Len(df.cols))
           /\ Kept(last.k, Len(df.rows), Len(df.cols)) = Len(df.cols)

C12_Witness ==
    /\ last.op = "pca"
    /\ last.n = 2 /\ last.d = 2 /\ last.k = 2
    /\ last.status = "ok"
    /\ df = DataFrame(<<<<1, 0>>, <<-1, 0>>>>, 2)

\* C13, as claimed: the reducer fails whenever the target dimension k is >= the source
\* dimension d, or the point set has fewer than k points.
C13_FailsFromSourceDimension ==
    (last.op = "pca" /\ (last.k >= last.d \/ last.n < last.k)) => last.status # "ok"

\* C13, amended: the reducer fails, with a ValueError and without building a frame,
\* exactly when the target dimension k is greater than the source dimension d or the
\* point set has fewer than k points; with k = d and at least k points it succeeds.
C13_FailsAboveSourceDimension ==
    last.op = "pca" =>
        /\ last.status \in {"ok", "ValueError"}
        /\ last.status = "ValueError" <=> (last.k > last.d \/ last.n < last.k)
        /\ last.status = "ValueError" => df = SetCol(df_no_r, "r", ApplyRadius(df_no_r))

C13_Witness ==
    /\ last.op = "pca"
    /\ last.n = 1 /\ last.d = 2 /\ last.k = 2
    /\ last.status = "ValueError"
    /\ HasCol(df, "r")

----------------------------------------------------------------------------
(* Failures of radius *)

\* C14, as claimed: radius fails when the vector is empty or contains a non-numeric
\* entry; it never returns a value for such input.
C14_RadiusRejectsEmptyAndNonNumeric ==
    (last.op = "radius" /\ (vector = <<>> \/ ~AllNumbers)) =>
        /\ last.status # "ok"
        /\ ret = <<>>

\* C14, amended: radius fails, with a TypeError and without returning a value, exactly
\* when the vector contains a non-numeric entry; for the empty vector it returns 0.0.
C14_RadiusRejectsNonNumeric ==
    last.op = "radius" =>
        /\ ~AllNumbers => (last.status = "TypeError" /\ ret = <<>>)
        /\ AllNumbers => (last.status = "ok" /\ Len(ret) = 1)
        /\ vector = <<>> => ret = <<Zero>>

C14_Witness ==
    /\ last.op = "radius"
    /\ vector = <<3, NonNumeric>>
    /\ last.status = "TypeError"
    /\ ret = <<>>

----------------------------------------------------------------------------
(* Failures of in_sample_dist *)

\* C15, as claimed: the histogram builder fails when the point set has n < 2 points
\* or the bin count b is <= 0; it never produces a histogram for such input.
C15_DistRejectsFewPointsAndNoBins ==
    (last.op = "in_sample_dist" /\ (Len(X) < 2 \/ last.bins <= 0)) =>
        /\ last.status # "ok"
        /\ fig.hist = NoHist

\* C15, amended: the histogram builder fails, with a ValueError and an empty figure,
\* exactly when the bin count b is <= 0; for n < 2 points and b >= 1 it does not fail
\* and draws b empty bins over [0, 1].
C15_DistRejectsNoBins ==
    last.op = "in_sample_dist" =>
        /\ last.status = (IF last.bins <= 0 THEN "ValueError" ELSE "ok")
        /\ last.bins <= 0 => fig.hist = NoHist
        /\ (Len(X) < 2 /\ last.bins >= 1) =>
               /\ fig.hist.counts = [i \in 1..last.bins |-> 0]
               /\ fig.hist.lo = Zero
               /\ fig.hist.hi = One

C15_Witness ==
    /\ last.op = "in_sample_dist"
    /\ Len(X) = 1
    /\ last.bins = 2
    /\ last.status = "ok"
    /\ fig.hist.counts = <<0, 0>>

----------------------------------------------------------------------------
(* Failures of kde_cdf_plot *)

\* kde_cdf_plot was called on a frame whose 'r' column is empty
EmptyCase == last.op = "kde_cdf_plot" /\ HasCol(df, "r") /\ df.rows = <<>>

\* C16: on an empty sequence of radii kde_cdf_plot fails, for every value of the norm
\* flag: the call ends in an error and no cumulative profile is drawn.
C16_EmptyRadiiFail ==
    EmptyCase =>
        /\ last.status # "ok"
        /\ fig.cdf = <<>>
        /\ fig.hist = NoHist

C16_Witness ==
    /\ EmptyCase
    /\ ~last.norm /\ ~last.vol
    /\ last.status = "ValueError"

C18_VolRaises ==
    (last.op = "kde_cdf_plot" /\ last.vol) =>
        /\ last.status # "ok"
        /\ (HasCol(df, "r") /\ df.rows # <<>>) => last.status = "NotImplementedError"
        /\ last.status = "NotImplementedError" =>
               /\ fig.kind = "kde_cdf"
               /\ fig.cdf = <<>>
               /\ fig.hist = NoHist
               /\ fig.xlab = ""

C18_Witness ==
    /\ last.op = "kde_cdf_plot"
    /\ last.vol /\ last.norm
    /\ last.status = "NotImplementedError"
    /\ X = <<<<1>>, <<4>>>>
    /\ fig.cdf = <<>>

\* C19, as claimed, for frames whose largest radius is positive: there is no partial
\* failure: whenever a call of kde_cdf_plot ends in an error, the caller's frame, its
\* 'r' column included, is exactly as it was before the call.
C19_NoPartialFailure ==
    [][(/\ HasCol(df, "r")
        /\ df.rows # <<>>
        /\ Lt(Zero, PyMax(GetCol(df, "r")))
        /\ last'.op = "kde_cdf_plot"
        /\ last'.status # "ok")
          => df' = df]_vars

----------------------------------------------------------------------------
(* What in_sample_dist hands back *)

\* C20, as claimed, for two points or more: the histogram builder returns its result
\* to the caller: the bin edges and the bin counts.
C20_DistReturnsHistogram ==
    (last.op = "in_sample_dist" /\ last.status = "ok" /\ Len(X) >= 2) =>
        ret = <<fig.hist>>

\* C20, amended: the histogram builder returns nothing (None); the bin edges and bin
\* counts exist only in the figure it draws, which has one count per bin asked for.
C20_DistReturnsNothing ==
    last.op = "in_sample_dist" =>
        /\ ret = <<>>
        /\ last.status = "ok" =>
               /\ fig.kind = "hist"
               /\ Len(fig.hist.counts) = last.bins

C20_Witness ==
    /\ last.op = "in_sample_dist"
    /\ last.status = "ok"
    /\ X = <<<<0>>, <<2>>>>
    /\ last.bins = 2
    /\ fig.hist.counts = <<0, 1>>
    /\ ret = <<>>

----------------------------------------------------------------------------
(* The assertion of kde_cdf_plot *)

\* the frame has no column named 'r'
NoRColumn(f) == \A c \in 1..Len(f.cols) : f.cols[c] # "r"

\* C21: kde_cdf_plot called on a frame that has no 'r' column fails its assertion
\* before it changes the frame or draws anything.
C21_AssertionComesFirst ==
    [][(NoRColumn(df) /\ last'.op = "kde_cdf_plot")
          => /\ last'.status = "AssertionError"
             /\ df' = df
             /\ fig' = fig
             /\ ret' = <<>>]_vars

\* a histogram is on screen, the frame has no 'r' column, and the call has failed
C21_Witness ==
    /\ last.op = "kde_cdf_plot"
    /\ last.status = "AssertionError"
    /\ ~last.norm /\ ~last.vol
    /\ NoRColumn(df)
    /\ X = <<<<1>>, <<3>>>>
    /\ fig.kind = "hist"

----------------------------------------------------------------------------
(* Re-running the cell that adds the 'r' column *)

\* the norm of the point i of X, from its integer coordinates
NormOfPoint(i) ==
    LET q == SumOfSquares(X[i], Len(X[i]))
    IN  [s |-> IF q = 0 THEN 0 ELSE 1, n |-> q, d |-> 1]

\* C22: adding the radial-distance column is idempotent: after the cell is run, also
\* on a frame that already has an 'r' column, every 'r' is the norm of the row's
\* coordinate columns only.
C22_RerunKeepsNorm ==
    last.op = "add_r" => \A i \in 1..Len(X) : R[i] = NormOfPoint(i)

----------------------------------------------------------------------------
(* Normalizing twice *)

\* kde_cdf_plot(df, norm=True) was called on a frame with a non-empty 'r' column
NormCase == KdeCase /\ last.norm

\* C23: normalization is idempotent: on a frame with a non-empty 'r' column, a call
\* kde_cdf_plot(df, norm=True) that follows a call kde_cdf_plot(df, norm=True) leaves
\* the 'r' column as the first call left it.
C23_NormalizingTwiceIsOnce ==
    [][(NormCase /\ last'.op = "kde_cdf_plot" /\ last'.norm)
          => GetCol(df', "r") = R]_vars

\* two points with different radii were normalized, by a call that raised after the
\* overwrite and a call that drew both plots
C23_Witness ==
    /\ NormCase
    /\ last.status = "ok"
    /\ X = <<<<1>>, <<2>>>>
    /\ R = <<[s |-> 1, n |-> 1, d |-> 4], One>>
    /\ fig.cdf # NoFig.cdf

----------------------------------------------------------------------------
(* The title of the plots *)

\* the number of coordinate columns of the frame: those that hold neither the radius
\* nor the label
Dimensions(f) == Cardinality({c \in 1..Len(f.cols) : f.cols[c] \notin {"r", "y"}})

\* C24: the dimensionality in the title of the plot is the dimension d of the points
\* of the frame, for every frame the notebook passes, the reduced frame with its 'r'
\* and 'y' columns included.
C24_TitleCountsDimensions ==
    (last.op = "kde_cdf_plot" /\ last.status = "ok" /\ (\E i, j \in 1..Len(R) : R[i] # R[j]))
        => fig.title = <<Len(X), Dimensions(df)>>

----------------------------------------------------------------------------
(* The two frames of make_blob_df *)

\* C25: of the frames make_blob_df returns, X_df_no_r holds the d coordinate columns
\* of X and nothing else, X_df holds the same coordinates and the column 'r', which is
\* the norm of the d coordinates of the row when make_blob_df returns, and no later
\* call of kde_cdf_plot on X_df, with norm=True or without, changes X_df_no_r.
C25_CopyWithoutRStaysAsBuilt ==
    last.op # "none" =>
        /\ NoRColumn(df_no_r)
        /\ df.cols = Append(df_no_r.cols, "r")
        /\ Len(df_no_r.rows) = Len(X)
        /\ Len(df.rows) = Len(X)
        /\ \A i \in 1..Len(X) :
              /\ Len(df_no_r.rows[i]) = Len(X[i])
              /\ \A j \in 1..Len(X[i]) :
                    /\ df_no_r.rows[i][j] = IntVal(X[i][j])
                    /\ df.rows[i][j] = IntVal(X[i][j])
        /\ last.op = "make_blob_df" =>
              /\ Len(df_no_r.cols) = last.d
              /\ \A i \in 1..Len(X) : R[i] = NormOfPoint(i)

\* X_df was normalized after make_blob_df built it, and X_df_no_r is as it was built
C25_Witness ==
    /\ NormCase
    /\ X = <<<<1>>, <<2>>>>
    /\ R = <<[s |-> 1, n |-> 1, d |-> 4], One>>
    /\ df_no_r = [cols |-> <<"x0">>, rows |-> <<<<One>>, <<IntVal(2)>>>>]

----------------------------------------------------------------------------
(* Properties of DoppelDict *)

\* the list [v, v]
Pair(v) == [type |-> "list", int |-> 0, list |-> <<v, v>>]

\* C26: in a DoppelDict, an assignment d[key] = v leaves the key mapped to [v, v] and
\* every other key as it was, and the constructor leaves each key of its keyword
\* arguments mapped to the plain value given: a key last assigned with the brackets
\* maps to the pair, a key set by the constructor only maps to the plain value.
C26_BracketsDoubleConstructorDoesNot ==
    [][/\ last'.op = "DoppelDict" =>
             /\ DOMAIN self'.items = DOMAIN last'.args[1]
             /\ \A key \in DOMAIN self'.items : self'.items[key] = last'.args[1][key]
       /\ last'.op = "__setitem__" =>
             /\ DOMAIN self'.items = DOMAIN self.items \cup {last'.args[1]}
             /\ self'.items[last'.args[1]] = Pair(last'.args[2])
             /\ \A key \in DOMAIN self.items \ {last'.args[1]} :
                   self'.items[key] = self.items[key]]_vars

\* dd = DoppelDict(one=1); dd['two'] = 2 gives {'one': 1, 'two': [2, 2]}
C26_Witness ==
    /\ last.op = "__setitem__"
    /\ last.args = <<"two", [type |-> "int", int |-> 2, list |-> <<>>]>>
    /\ DOMAIN self.items = {"one", "two"}
    /\ self.items["one"] = [type |-> "int", int |-> 1, list |-> <<>>]
    /\ self.items["two"] = Pair([type |-> "int", int |-> 2, list |-> <<>>])

----------------------------------------------------------------------------
(* Properties of ListOfThings and OrderedListOfThings *)

\* how many times v is in the list xs
Count(xs, v) == Cardinality({i \in 1..Len(xs) : xs[i] = v})

Ascending(xs) == \A i \in 1..(Len(xs) - 1) : xs[i] <= xs[i + 1]

\* C27: get_the_things of an OrderedListOfThings returns the stored things in ascending
\* order, each as many times as it is stored, and get_the_things of a ListOfThings
\* returns them in the order given; neither changes the stored list, so that a
\* repeated call returns the same.
C27_OrderedGetSortsACopy ==
    [][last'.op = "get_the_things" =>
          /\ self' = self
          /\ Len(ret') = 1
          /\ self.class = "OrderedListOfThings" =>
                /\ Ascending(ret'[1])
                /\ Len(ret'[1]) = Len(self.things)
                /\ \A v \in 1..MaxThing : Count(ret'[1], v) = Count(self.things, v)
          /\ self.class = "ListOfThings" => ret'[1] = self.things]_vars

\* OrderedListOfThings([1,3,4,2]).get_the_things() is [1, 2, 3, 4]
C27_Witness ==
    /\ last.op = "get_the_things"
    /\ self = [class |-> "OrderedListOfThings", things |-> <<1, 3, 4, 2>>]
    /\ ret = <<<<1, 2, 3, 4>>>>

----------------------------------------------------------------------------
(* Properties of LengthyDecimal *)

RECURSIVE NDigits(_)
\* the number of digits of the integer k written in base ten, none for 0
NDigits(k) == IF k = 0 THEN 0 ELSE NDigits(k \div 10) + 1

\* the digits of the decimal that stand left of the decimal point
DigitsLeft == NDigits((self.int * Pow10(self.exp)) \div Pow10(-self.exp))

\* len was called on a LengthyDecimal greater than zero
LenCase == last.op = "len" /\ self.sign = 0 /\ self.int > 0

\* C28, as claimed: for every LengthyDecimal greater than zero, len() succeeds and
\* returns the number of digits left of the decimal point (a lone 0 left of the point
\* may count or not), 1 for 5 and 3 for 555.44.
C28_LenCountsDigitsLeftOfPoint ==
    LenCase =>
        /\ last.status = "ok"
        /\ Len(ret) = 1
        /\ \/ ret[1] = DigitsLeft
           \/ DigitsLeft = 0 /\ ret[1] = 1

----------------------------------------------------------------------------
(* Properties of Vector *)

\* the two Vectors have the same length and pairwise-equal components
SameComponents ==
    /\ Len(self.components) = Len(other.components)
    /\ \A i \in 1..Len(self.components) :
          FloatValue(self.components[i]) = FloatValue(other.components[i])

\* C29: the hash of a Vector is consistent with its equality: two Vectors compare
\* equal exactly if they have the same length and pairwise-equal components, two
\* Vectors that compare equal have the same hash, and the hash is the xor of the
\* hashes of the components starting from 0 (0 for the empty Vector).
C29_EqualVectorsHashAlike ==
    /\ last.op = "__eq__" =>
          /\ ret[1] = SameComponents
          /\ ret[1] => VectorHash(self) = VectorHash(other)
    /\ last.op = "__hash__" =>
          /\ self.components = <<>> => ret[1] = 0
          /\ \A i \in 1..Len(self.components) :
                ret[1] = Xor(VectorHash([self EXCEPT !.components = SubSeq(self.components, 1, i - 1)
                                                       \o SubSeq(self.components, i + 1, Len(self.components))]),
                             FloatHash(self.components[i]))

\* Vector([0.0, -1.0]) == Vector([-0.0, -1.0]), and both hash to -2
C29_Witness ==
    /\ last.op = "__eq__"
    /\ ret = <<TRUE>>
    /\ self.components = <<[neg |-> FALSE, mag |-> 0], [neg |-> TRUE, mag |-> 1]>>
    /\ other.components = <<[neg |-> TRUE, mag |-> 0], [neg |-> TRUE, mag |-> 1]>>
    /\ VectorHash(self) = -2
    /\ VectorHash(other) = -2

====
